---- MODULE Spec2Model ----
(***************************************************************************)
(* SoulSync: session tokens (register / login / verification / the generic *)
(* auth branch) of the serverless API handler, and the quota-gated match   *)
(* resolution of the AIMatching client component.                          *)
(*                                                                         *)
(* Time is a clock of whole ticks; a JWT's iat/exp are clock readings, so  *)
(* two tokens signed for the same user in the same tick are the same       *)
(* string (HS256 is deterministic).                                        *)
(***************************************************************************)
EXTENDS Integers, Sequences, FiniteSets, Bags, TLC

(* ----------------------------- bounds ---------------------------------- *)
MaxTime == 2
MaxTokens == 2
MaxReq == 2
MaxCalls == 2
MaxLog == 3
MaxDay == 1
MaxEvals == 2
MaxRank == 4
MaxMatches == 3
MaxUploads == 3
MaxDeletes == 1
MaxDeliveries == 3
MaxRefreshes == 2
MaxRegistrations == 3

(* ------------------------- program constants --------------------------- *)
\* expiresIn '7d' / '30d', scaled to clock ticks (AccessTTL < RefreshTTL)
AccessTTL == 1
RefreshTTL == 2
\* findMany take: 20
Take == 20
\* matchLimit = state.hasPremium ? 10 : 2
PremiumLimit == 10
FreeLimit == 2
\* if (user.photos.length >= 6)
PhotoLimit == 6

UserIds == {"u1", "u2", "u3"}
Emails == {"a@x", "A@x", "b@x"}
\* passwords typed at sign-in; accounts are created with the first
Passwords == {"p1", "p2"}
SignupPasswords == {"p1"}
Missing == "<missing>"
None == "<none>"

toLowerCase(e) == IF e = "A@x" THEN "a@x" ELSE e

VARIABLES
    now,            \* the clock
    day,            \* the calendar date of the client's clock
    users,          \* db.user rows
    refreshTokens,  \* db.refreshToken rows
    issued,         \* token pairs returned to callers (history)
    resp,           \* the last HTTP exchange: request and response
    authLog,        \* <<endpoint, refresh token>> of the generic-branch calls answered 2xx (history)
    appState,       \* AppContext state of the client
    reqs,           \* match resolutions in flight in the client
    resolved,       \* number of resolutions that ended in SET_MATCH (history)
    scored,         \* the compatibility evaluations made: <<answers, answers, score>> (history)
    ranked,         \* the list last given to the sort, and the sorted list
    quiz,           \* the two quiz components: the ids answered, the list built
    dashboard,      \* the Dashboard component's state and the end of its last load
    photoDb,        \* the caller's users.photos array and the ids of the caller's image rows
    photoReqs,      \* the upload handler's requests in flight (a bag)
    registrations,  \* POST /api/auth/register requests in flight (a bag)
    pay,            \* payment rows, subscription rows, webhook deliveries in flight
    client,         \* the axios client: localStorage, its calls, and the refresh service it talks to
    server          \* an Express app: its middleware stack, how far start-up is, its last request

\* the variables of the token service and of the AIMatching component
coreVars == <<now, day, users, refreshTokens, issued, resp, authLog, appState, reqs, resolved, scored, ranked>>
\* the variables of the other components
extVars == <<quiz, dashboard, photoDb, photoReqs, registrations, server, pay, client>>
\* what the actions of one component leave unchanged
quizFrame == <<coreVars, dashboard, photoDb, photoReqs, registrations, server, pay, client>>
dashboardFrame == <<coreVars, quiz, photoDb, photoReqs, registrations, server, pay, client>>
photoFrame == <<coreVars, quiz, dashboard, registrations, server, pay, client>>
\* the same, the response excepted
photoRest == <<now, day, users, refreshTokens, issued, authLog, appState, reqs, resolved, scored, ranked, quiz, dashboard, registrations, server, pay, client>>
clientFrame == <<coreVars, quiz, dashboard, photoDb, photoReqs, registrations, server, pay>>
payFrame == <<coreVars, quiz, dashboard, photoDb, photoReqs, registrations, server, client>>
serverFrame == <<coreVars, quiz, dashboard, photoDb, photoReqs, registrations, pay, client>>
registerFrame == <<now, day, authLog, appState, reqs, resolved, scored, ranked, quiz, dashboard, photoDb, photoReqs, server, pay, client>>
vars == <<coreVars, extVars>>
clientVars == <<day, appState, reqs, resolved, scored, ranked, extVars>>


(* ------------------------------ JWT ------------------------------------ *)
\* jwt.sign({userId}, secret, {expiresIn}): the string is a function of the
\* payload {userId, iat, exp} and of the key
jwtSign(userId, secret, ttl) ==
    [userId |-> userId, iat |-> now, exp |-> now + ttl, sig |-> secret]

\* jwt.verify called with ignoreExpiration: the exp claim is not looked at
jwtVerifyIgnoreExpiration(token, secret) ==
    IF token.sig # secret THEN [ok |-> FALSE, err |-> "JsonWebTokenError", userId |-> None]
    ELSE [ok |-> TRUE, err |-> None, userId |-> token.userId]

\* jwt.verify(token, secret): throws on a bad signature or when expired
jwtVerify(token, secret) ==
    IF token.sig # secret THEN [ok |-> FALSE, err |-> "JsonWebTokenError", userId |-> None]
    ELSE IF now >= token.exp THEN [ok |-> FALSE, err |-> "TokenExpiredError", userId |-> None]
    ELSE [ok |-> TRUE, err |-> None, userId |-> token.userId]

\* bcrypt.hash / bcrypt.compare
bcryptHash(p) == <<"bcrypt", p>>
bcryptCompare(p, h) == h = bcryptHash(p)

(* --------------------------- requests ---------------------------------- *)
\* a token with the payload of t, signed with a key that is not the server's
ForgedOf(t) == [t EXCEPT !.sig = "forged"]

NoToken == [userId |-> None, iat |-> 0, exp |-> 0, sig |-> None]
NoHeader == [kind |-> "none", token |-> NoToken]
Malformed == [kind |-> "malformed", token |-> NoToken]
Bearer(t) == [kind |-> "bearer", token |-> t]

\* what a caller can put in the Authorization header: nothing, garbage, a
\* token the server returned, or a token signed with a key it does not have
AuthHeaders ==
    {NoHeader, Malformed}
    \cup {Bearer(p.accessToken) : p \in issued}
    \cup {Bearer(p.refreshToken) : p \in issued}
    \cup {Bearer(ForgedOf(p.accessToken)) : p \in issued}

UserById(id) == {u \in users : u.id = id}
UserByEmail(e) == {u \in users : u.email = e}

\* why a header is no proof of identity at this moment ("valid" when it is)
Classify(h) ==
    IF h.kind = "none" THEN "missing"
    ELSE IF h.kind = "malformed" THEN "malformed"
    ELSE IF h.token.sig # "JWT_SECRET" THEN "forged"
    ELSE IF now >= h.token.exp THEN "expired"
    ELSE IF UserById(h.token.userId) = {} THEN "unknown"
    ELSE IF \E u \in UserById(h.token.userId) : ~u.isActive THEN "deactivated"
    ELSE "valid"

\* getUserFromToken of the API handler: the user's id, or None for null
getUserFromToken(authHeader) ==
    IF authHeader.kind # "bearer" THEN None
    ELSE LET decoded == jwtVerify(authHeader.token, "JWT_SECRET") IN
         IF ~decoded.ok THEN None
         ELSE LET user == UserById(decoded.userId) IN
              IF user # {} /\ (\A u \in user : u.isActive) THEN decoded.userId ELSE None

\* getUserFromToken of the demo upload handler: a mock user, no database read
getUserFromTokenMock(authHeader) ==
    IF authHeader.kind # "bearer" THEN None
    ELSE LET decoded == jwtVerify(authHeader.token, "JWT_SECRET") IN
         IF ~decoded.ok THEN None ELSE decoded.userId

\* the production upload handler without its isActive test
getUserFromTokenUploadAnyUser(authHeader) ==
    IF authHeader.kind # "bearer" THEN None
    ELSE LET decoded == jwtVerify(authHeader.token, "JWT_SECRET") IN
         IF ~decoded.ok THEN None
         ELSE IF UserById(decoded.userId) # {} THEN decoded.userId ELSE None

\* getUserFromToken of the production upload handler
getUserFromTokenUpload(authHeader) ==
    IF authHeader.kind # "bearer" THEN None
    ELSE LET decoded == jwtVerify(authHeader.token, "JWT_SECRET") IN
         IF ~decoded.ok THEN None
         ELSE LET user == UserById(decoded.userId) IN
              IF user # {} /\ (\A u \in user : u.isActive) THEN decoded.userId ELSE None

(* --------------------------- responses --------------------------------- *)
NoTokens == {}
NoRanking == [input |-> <<>>, output |-> <<>>]
NoMatches == <<>>
NoQuiz == [personalityAnswers |-> {}, questions |-> <<>>]
NoPhotos == [photos |-> <<>>, images |-> {}, created |-> 0, deletes |-> 0]
NoRequest == [method |-> None, path |-> <<>>, ready |-> FALSE, answeredBy |-> None]
NoServer == [app |-> None, pc |-> 1, stack |-> <<>>, routes |-> 0, listening |-> FALSE, request |-> NoRequest]
NoPayments == [payments |-> <<>>, subscriptions |-> EmptyBag, deliveries |-> 0, inFlight |-> EmptyBag, status |-> 0]
\* localStorage.getItem(...) === null
NoStoredToken == -1
NoCall == [pc |-> "idle", retry |-> FALSE, auth |-> NoStoredToken, refreshToken |-> NoStoredToken,
           sends |-> 0, refreshes |-> 0, outcome |-> None]
NoClient == [accessToken |-> NoStoredToken, refreshToken |-> NoStoredToken, location |-> "/", cleared |-> None,
             calls |-> [c \in 1..MaxReq |-> NoCall], presented |-> EmptyBag,
             service |-> [kind |-> None, refreshToken |-> NoStoredToken, accepted |-> {}, rotated |-> {}]]
NoDashboard == [matches |-> <<>>, loading |-> FALSE, currentMatchIndex |-> 0, lastLoad |-> None]
\* route, status, code, userId, tokens and matches are the exchange the caller
\* sees; cause records why its credential was (or was not) good when it was sent
Response(route, cause, status, code, userId, tokens, matches) ==
    [route |-> route, cause |-> cause, status |-> status, code |-> code,
     userId |-> userId, tokens |-> tokens, matches |-> matches, req |-> NoToken]

\* what the caller sees of an exchange
Outcome(r) == [status |-> r.status, code |-> r.code, userId |-> r.userId,
               tokens |-> r.tokens, matches |-> r.matches]

TokenPair(userId, accessToken, refreshToken) ==
    [userId |-> userId, accessToken |-> accessToken, refreshToken |-> refreshToken]

\* db.refreshToken.create: the token column is UNIQUE
TokenTaken(token) == \E r \in refreshTokens : r.token = token

\* "Generate JWT tokens" of register and login
accessTokenFor(userId) == jwtSign(userId, "JWT_SECRET", AccessTTL)
refreshTokenFor(userId) == jwtSign(userId, "JWT_REFRESH_SECRET", RefreshTTL)
RefreshRow(userId, token) == [userId |-> userId, token |-> token, expiresAt |-> now + RefreshTTL]

\* gen_random_uuid(): an id no row has
FreshId == CHOOSE id \in UserIds : UserById(id) = {}

Init ==
    /\ now = 0
    /\ day = 0
    /\ users = {}
    /\ refreshTokens = {}
    /\ issued = {}
    /\ authLog = {}
    /\ resp = Response("none", None, 0, None, None, NoTokens, NoMatches)
    /\ appState = [hasPremium |-> FALSE, date |-> 0, dailyMatchCount |-> 0, rejectedMatches |-> {},
                   currentMatch |-> [id |-> None, compatibility |-> 0]]
    /\ reqs = [r \in 1..MaxReq |-> [pc |-> "idle", dailyMatchCount |-> 0, rejectedMatches |-> {}, outcome |-> None]]
    /\ resolved = 0
    /\ scored = {}
    /\ ranked = NoRanking
    /\ quiz = NoQuiz
    /\ dashboard = NoDashboard
    /\ photoDb = NoPhotos
    /\ photoReqs = EmptyBag
    /\ registrations = EmptyBag
    /\ server = NoServer
    /\ pay = NoPayments
    /\ client = NoClient

\* the clock advances
Tick ==
    /\ now < MaxTime
    /\ now' = now + 1
    /\ UNCHANGED <<users, refreshTokens, issued, resp, authLog, clientVars>>

\* POST /api/auth/register
Register(email, password) ==
    /\ UNCHANGED <<now, authLog, clientVars>>
    /\ IF email = Missing \/ password = Missing
       THEN /\ resp' = Response("register", None, 400, "Missing required fields", None, NoTokens, NoMatches)
            /\ UNCHANGED <<users, refreshTokens, issued>>
       ELSE IF UserByEmail(toLowerCase(email)) # {}
       THEN /\ resp' = Response("register", None, 409, "An account with this email already exists", None, NoTokens, NoMatches)
            /\ UNCHANGED <<users, refreshTokens, issued>>
       ELSE /\ \E id \in UserIds : UserById(id) = {}
            /\ LET id == FreshId
                   accessToken == accessTokenFor(id)
                   refreshToken == refreshTokenFor(id)
               IN /\ users' = users \cup {[id |-> id, email |-> toLowerCase(email),
                                           password |-> bcryptHash(password),
                                           isVerified |-> FALSE, isActive |-> TRUE,
                                           createdAt |-> Cardinality(users)]}
                  /\ IF TokenTaken(refreshToken)
                     THEN /\ resp' = Response("register", "P2002", 409, "An account with this email already exists", None, NoTokens, NoMatches)
                          /\ UNCHANGED <<refreshTokens, issued>>
                     ELSE /\ refreshTokens' = refreshTokens \cup {RefreshRow(id, refreshToken)}
                          /\ issued' = issued \cup {TokenPair(id, accessToken, refreshToken)}
                          /\ resp' = Response("register", None, 201, "Account created successfully", id,
                                              {accessToken, refreshToken}, NoMatches)

\* POST /api/auth/login
Login(email, password) ==
    /\ UNCHANGED <<now, users, authLog, clientVars>>
    /\ IF email = Missing \/ password = Missing
       THEN /\ resp' = Response("login", None, 400, "Email and password are required", None, NoTokens, NoMatches)
            /\ UNCHANGED <<refreshTokens, issued>>
       ELSE IF UserByEmail(toLowerCase(email)) = {}
       THEN /\ resp' = Response("login", None, 401, "Invalid email or password", None, NoTokens, NoMatches)
            /\ UNCHANGED <<refreshTokens, issued>>
       ELSE LET user == CHOOSE u \in UserByEmail(toLowerCase(email)) : TRUE
                accessToken == accessTokenFor(user.id)
                refreshToken == refreshTokenFor(user.id)
            IN IF ~user.isActive
               THEN /\ resp' = Response("login", None, 401, "Your account has been deactivated", None, NoTokens, NoMatches)
                    /\ UNCHANGED <<refreshTokens, issued>>
               ELSE IF ~bcryptCompare(password, user.password)
               THEN /\ resp' = Response("login", None, 401, "Invalid email or password", None, NoTokens, NoMatches)
                    /\ UNCHANGED <<refreshTokens, issued>>
               ELSE IF TokenTaken(refreshToken)
               THEN /\ resp' = Response("login", "P2002", 500, "Login failed. Please try again.", None, NoTokens, NoMatches)
                    /\ UNCHANGED <<refreshTokens, issued>>
               ELSE /\ Cardinality(refreshTokens) < MaxTokens
                    /\ refreshTokens' = refreshTokens \cup {RefreshRow(user.id, refreshToken)}
                    /\ issued' = issued \cup {TokenPair(user.id, accessToken, refreshToken)}
                    /\ resp' = Response("login", None, 200, "Welcome back! Login successful.", user.id,
                                        {accessToken, refreshToken}, NoMatches)

\* /api/auth/me answering with the verification error's own message
MeResponseNamingTheError(authHeader) ==
    LET user == getUserFromToken(authHeader)
        decoded == jwtVerify(authHeader.token, "JWT_SECRET")
    IN IF user = None
       THEN Response("me", Classify(authHeader), 401,
                     IF authHeader.kind = "bearer" /\ ~decoded.ok THEN decoded.err
                     ELSE "Invalid or expired token",
                     None, NoTokens, NoMatches)
       ELSE Response("me", Classify(authHeader), 200, None, user, NoTokens, NoMatches)

\* GET /api/auth/me
MeResponse(authHeader) ==
    LET user == getUserFromToken(authHeader) IN
    IF user = None
    THEN Response("me", Classify(authHeader), 401, "Invalid or expired token", None, NoTokens, NoMatches)
    ELSE Response("me", Classify(authHeader), 200, None, user, NoTokens, NoMatches)

Me(authHeader) ==
    /\ resp' = MeResponse(authHeader)
    /\ UNCHANGED <<now, users, refreshTokens, issued, authLog, clientVars>>

\* db.user.findMany({where: {isActive, isVerified, id: {not}}, take: 20,
\* orderBy: {createdAt: 'desc'}}): the ids, newest first
RECURSIVE NewestFirst(_)
NewestFirst(S) ==
    IF S = {} THEN <<>>
    ELSE LET u == CHOOSE x \in S : \A y \in S : y.createdAt <= x.createdAt
         IN <<u.id>> \o NewestFirst(S \ {u})

FirstN(s, n) == IF Len(s) <= n THEN s ELSE SubSeq(s, 1, n)

findMany(currentUserId) ==
    FirstN(NewestFirst({u \in users : /\ u.isActive
                                       /\ u.isVerified
                                       /\ (currentUserId # None => u.id # currentUserId)}), Take)

\* GET /api/users/potential-matches
PotentialMatchesResponse(authHeader) ==
    LET user == getUserFromToken(authHeader)
        currentUserId == IF user # None THEN user ELSE None
        matches == findMany(currentUserId)
    IN Response("potential-matches", Classify(authHeader), 200, None, currentUserId, NoTokens, matches)

PotentialMatches(authHeader) ==
    /\ resp' = PotentialMatchesResponse(authHeader)
    /\ UNCHANGED <<now, users, refreshTokens, issued, authLog, clientVars>>

\* the generic /api/auth/* branch: every auth URL other than register,
\* login and me, among them POST /api/auth/refresh and POST /api/auth/logout.
\* It reads neither the body nor the database.
AuthEndpoints == {"refresh", "logout"}

\* how often the branch has answered this endpoint and token with 2xx
Answered(endpoint, refreshToken) ==
    Cardinality({e \in authLog : e[1] = endpoint /\ e[2] = refreshToken})

\* the branch refusing a token it has already answered a logout for
AuthGenericResponseOnce(endpoint, refreshToken) ==
    IF endpoint = "logout" /\ Answered(endpoint, refreshToken) > 0
    THEN [Response(endpoint, "again", 404, "Token not found", None, NoTokens, NoMatches)
          EXCEPT !.req = refreshToken]
    ELSE [Response(endpoint, IF Answered(endpoint, refreshToken) > 0 THEN "again" ELSE "first",
                   200, "This endpoint is not fully implemented yet", None, NoTokens, NoMatches)
          EXCEPT !.req = refreshToken]

AuthGenericResponse(endpoint, refreshToken) ==
    [Response(endpoint, IF Answered(endpoint, refreshToken) > 0 THEN "again" ELSE "first",
              200, "This endpoint is not fully implemented yet", None, NoTokens, NoMatches)
     EXCEPT !.req = refreshToken]

AuthGeneric(endpoint, refreshToken) ==
    /\ Answered(endpoint, refreshToken) < MaxCalls
    /\ resp' = AuthGenericResponse(endpoint, refreshToken)
    /\ authLog' = IF resp'.status = 200
                  THEN authLog \cup {<<endpoint, refreshToken, Answered(endpoint, refreshToken) + 1>>}
                  ELSE authLog
    /\ UNCHANGED <<now, users, refreshTokens, issued, clientVars>>

\* POST of the demo upload handler
ImageInputs == {"data:image/png", Missing}

UploadDemoResponse(authHeader, image) ==
    LET user == getUserFromTokenMock(authHeader) IN
    IF user = None
    THEN Response("upload-demo", Classify(authHeader), 401, "Authentication required for image upload", None, NoTokens, NoMatches)
    ELSE IF image = Missing
    THEN Response("upload-demo", Classify(authHeader), 400, "No image data provided", user, NoTokens, NoMatches)
    ELSE Response("upload-demo", Classify(authHeader), 200, "Image uploaded successfully", user, NoTokens, NoMatches)

UploadDemo(authHeader, image) ==
    /\ resp' = UploadDemoResponse(authHeader, image)
    /\ UNCHANGED <<now, users, refreshTokens, issued, authLog, clientVars>>

\* GET of the production upload handler
UploadGetResponse(authHeader) ==
    LET user == getUserFromTokenUpload(authHeader) IN
    IF user = None
    THEN Response("upload-get", Classify(authHeader), 401, "Authentication required", None, NoTokens, NoMatches)
    ELSE Response("upload-get", Classify(authHeader), 200, None, user, NoTokens, NoMatches)

UploadGet(authHeader) ==
    /\ resp' = UploadGetResponse(authHeader)
    /\ UNCHANGED <<now, users, refreshTokens, issued, authLog, clientVars>>

\* the identity's flags are changed by operations outside this handler
\* (e-mail verification, account deactivation)
VerifyEmail(id) ==
    /\ \E u \in users : u.id = id /\ ~u.isVerified
    /\ users' = {IF u.id = id THEN [u EXCEPT !.isVerified = TRUE] ELSE u : u \in users}
    /\ UNCHANGED <<now, refreshTokens, issued, resp, authLog, clientVars>>

Deactivate(id) ==
    /\ \E u \in users : u.id = id /\ u.isActive
    /\ users' = {IF u.id = id THEN [u EXCEPT !.isActive = FALSE] ELSE u : u \in users}
    /\ UNCHANGED <<now, refreshTokens, issued, resp, authLog, clientVars>>

Next ==
    \/ Tick
    \/ \E e \in Emails \cup {Missing}, p \in SignupPasswords \cup {Missing} : Register(e, p)
    \/ \E e \in Emails \cup {Missing}, p \in Passwords \cup {Missing} : Login(e, p)
    \/ \E h \in AuthHeaders : Me(h)
    \/ \E h \in AuthHeaders : PotentialMatches(h)
    \/ \E h \in AuthHeaders, image \in ImageInputs : UploadDemo(h, image)
    \/ \E h \in AuthHeaders : UploadGet(h)
    \/ \E id \in UserIds : VerifyEmail(id)
    \/ \E id \in UserIds : Deactivate(id)

Spec == Init /\ [][Next]_vars

\* the session life cycle: sign-up, sign-in, and the refresh and logout calls
NextSession ==
    \/ Tick
    \/ \E e \in Emails \cup {Missing}, p \in SignupPasswords \cup {Missing} : Register(e, p)
    \/ \E e \in Emails \cup {Missing}, p \in Passwords \cup {Missing} : Login(e, p)
    \/ \E ep \in AuthEndpoints, p \in issued : AuthGeneric(ep, p.refreshToken)

SpecSession == Init /\ [][NextSession]_vars

\* revocation: the logout, refresh and change-password calls of authAPI, all
\* of them served by the generic branch. A logout or refresh call carries a
\* refresh token, or a token the table has no row for (here an access
\* token); a change-password call carries the caller's access token.
RevokeEndpoints == AuthEndpoints \cup {"change-password"}

Credentials(endpoint) ==
    IF endpoint = "change-password" THEN {p.accessToken : p \in issued}
    ELSE IF endpoint = "logout" THEN {p.refreshToken : p \in issued} \cup {p.accessToken : p \in issued}
    ELSE {p.refreshToken : p \in issued}

AuthCall(endpoint, token) ==
    /\ Cardinality(authLog) < MaxLog
    /\ AuthGeneric(endpoint, token)

NextRevoke ==
    \/ \E e \in Emails \cup {Missing}, p \in SignupPasswords \cup {Missing} : Register(e, p)
    \/ \E e \in Emails \cup {Missing}, p \in Passwords \cup {Missing} : Login(e, p)
    \/ \E ep \in RevokeEndpoints : \E t \in Credentials(ep) : AuthCall(ep, t)

SpecRevoke == Init /\ [][NextRevoke]_vars

(* ====================== AIMatching (client) ============================ *)
\* compatibility as Math.round(score * 10): 7.0 .. 10.0 in tenths
ScoreVals == {70, 85, 100}
Caller == "u1"

\* request interceptor: Authorization is the accessToken of localStorage
ClientHeader ==
    IF \E p \in issued : p.userId = Caller
    THEN Bearer((CHOOSE p \in issued : p.userId = Caller).accessToken)
    ELSE NoHeader

\* const matchLimit = state.hasPremium ? 10 : 2
matchLimit(hasPremium) == IF hasPremium THEN PremiumLimit ELSE FreeLimit

\* the limit check written with > for >=
LimitReachedOffByOne(dailyMatchCount, hasPremium) == dailyMatchCount > matchLimit(hasPremium)

\* if (state.dailyMatchCount >= matchLimit)
LimitReached(dailyMatchCount, hasPremium) == dailyMatchCount >= matchLimit(hasPremium)

Idle == [pc |-> "idle", dailyMatchCount |-> 0, rejectedMatches |-> {}, outcome |-> None]
Ended(outcome) == [Idle EXCEPT !.outcome = outcome]

\* potentialMatches.filter(user => !rejectedIds.includes(user.id))
availableUsers(potentialMatches, rejectedIds) ==
    SelectSeq(potentialMatches, LAMBDA id : id \notin rejectedIds)

\* an insertion that puts a match before the matches of equal compatibility
RECURSIVE InsertByScoreUnstable(_, _)
InsertByScoreUnstable(m, sorted) ==
    IF sorted = <<>> THEN <<m>>
    ELSE IF Head(sorted).compatibility > m.compatibility
         THEN <<Head(sorted)>> \o InsertByScoreUnstable(m, Tail(sorted))
         ELSE <<m>> \o sorted

\* matchesWithScores.sort((a, b) => b.compatibility - a.compatibility): a
\* stable sort, highest compatibility first
RECURSIVE InsertByScore(_, _)
InsertByScore(m, sorted) ==
    IF sorted = <<>> THEN <<m>>
    ELSE IF Head(sorted).compatibility >= m.compatibility
         THEN <<Head(sorted)>> \o InsertByScore(m, Tail(sorted))
         ELSE <<m>> \o sorted

RECURSIVE sortByCompatibility(_)
sortByCompatibility(matches) ==
    IF matches = <<>> THEN <<>>
    ELSE InsertByScore(matches[Len(matches)],
                       sortByCompatibility(SubSeq(matches, 1, Len(matches) - 1)))

\* const topMatch = matchesWithScores[0], after the sort
topMatch(matches) == sortByCompatibility(matches)[1]

\* users.map(user => ({...user, compatibility})) with the scores drawn
matchesWithScores(ids, score) ==
    [i \in 1..Len(ids) |-> [id |-> ids[i], compatibility |-> score[ids[i]]]]

\* the AppContext state as the provider hands it out on this day: the count
\* and the rejected list of an earlier date are treated as absent
TodayIgnoringTheDate(st) == st

Today(st) ==
    IF st.date = day THEN st
    ELSE [st EXCEPT !.date = day, !.dailyMatchCount = 0, !.rejectedMatches = {}]

\* RESET_DAILY_MATCHES giving the day's matches back as well
RESET_DAILY_MATCHES_AND_COUNT(st) ==
    [Today(st) EXCEPT !.rejectedMatches = {}, !.dailyMatchCount = 0]

\* the AppContext reducer
SET_MATCH(st, payload) ==
    [Today(st) EXCEPT !.currentMatch = payload, !.dailyMatchCount = @ + 1]
RESET_DAILY_MATCHES(st) == [Today(st) EXCEPT !.rejectedMatches = {}]
REJECT_MATCH(st) ==
    [Today(st) EXCEPT !.rejectedMatches = @ \cup {st.currentMatch.id},
                      !.currentMatch = [id |-> None, compatibility |-> 0]]
ACCEPT_MATCH(st) == [Today(st) EXCEPT !.currentMatch = [id |-> None, compatibility |-> 0]]

\* fetchPotentialMatches up to its await: the limit check on the state the
\* callback closed over, then the request is sent
BeginResolve(r) ==
    /\ reqs[r].pc = "idle"
    /\ LET state == Today(appState) IN
       IF LimitReached(state.dailyMatchCount, state.hasPremium)
       THEN reqs' = [reqs EXCEPT ![r] = Ended("Denied")]
       ELSE reqs' = [reqs EXCEPT ![r] = [pc |-> "fetching",
                                          dailyMatchCount |-> state.dailyMatchCount,
                                          rejectedMatches |-> state.rejectedMatches,
                                          outcome |-> None]]
    /\ UNCHANGED <<extVars, scored, ranked, now, day, users, refreshTokens, issued, resp, authLog, appState, resolved>>

\* one resolution at a time
BeginResolveAlone(r) ==
    /\ \A q \in 1..MaxReq : reqs[q].pc = "idle"
    /\ BeginResolve(r)

\* the request failed (network, 5xx): the catch of fetchPotentialMatches
FetchFailure(r) ==
    /\ reqs[r].pc = "fetching"
    /\ reqs' = [reqs EXCEPT ![r] = Ended("Failed")]
    /\ UNCHANGED <<extVars, scored, ranked, now, day, users, refreshTokens, issued, resp, authLog, appState, resolved>>

\* the directory answered: the rest of fetchPotentialMatches and of the
\* timeout callback (filter, reset, score, sort, SET_MATCH)
FetchResponse(r) ==
    /\ reqs[r].pc = "fetching"
    /\ resp' = PotentialMatchesResponse(ClientHeader)
    /\ LET potentialMatches == resp'.matches
           available == availableUsers(potentialMatches, reqs[r].rejectedMatches)
           pool == IF Len(available) = 0 THEN potentialMatches ELSE available
           afterReset == IF Len(available) = 0 THEN RESET_DAILY_MATCHES(appState) ELSE appState
       IN IF Len(potentialMatches) = 0
          THEN /\ reqs' = [reqs EXCEPT ![r] = Ended("NoCandidates")]
               /\ UNCHANGED <<appState, resolved>>
          ELSE \E score \in [{pool[i] : i \in 1..Len(pool)} -> ScoreVals] :
                  LET top == topMatch(matchesWithScores(pool, score))
                  IN /\ appState' = SET_MATCH(afterReset, top)
                     /\ reqs' = [reqs EXCEPT ![r] = Ended(IF Len(available) = 0
                                                          THEN "ResolvedAfterReset"
                                                          ELSE "Resolved")]
                     /\ resolved' = resolved + 1
    /\ UNCHANGED <<extVars, scored, ranked, now, day, users, refreshTokens, issued, authLog>>

\* the user passes on, or accepts, the revealed match
RejectMatch ==
    /\ appState.currentMatch.id # None
    /\ appState' = REJECT_MATCH(appState)
    /\ UNCHANGED <<extVars, scored, ranked, now, day, users, refreshTokens, issued, resp, authLog, reqs, resolved>>

AcceptMatch ==
    /\ appState.currentMatch.id # None
    /\ appState' = ACCEPT_MATCH(appState)
    /\ UNCHANGED <<extVars, scored, ranked, now, day, users, refreshTokens, issued, resp, authLog, reqs, resolved>>

\* a signed-in caller and a directory of two verified candidates
SeedUser(id, email, createdAt) ==
    [id |-> id, email |-> email, password |-> bcryptHash("p1"),
     isVerified |-> TRUE, isActive |-> TRUE, createdAt |-> createdAt]
SeedAccess == [userId |-> Caller, iat |-> 0, exp |-> AccessTTL, sig |-> "JWT_SECRET"]
SeedRefresh == [userId |-> Caller, iat |-> 0, exp |-> RefreshTTL, sig |-> "JWT_REFRESH_SECRET"]

InitMatch ==
    /\ now = 0
    /\ day = 0
    /\ users = {SeedUser("u1", "a@x", 0), SeedUser("u2", "b@x", 1), SeedUser("u3", "c@x", 2)}
    /\ refreshTokens = {[userId |-> Caller, token |-> SeedRefresh, expiresAt |-> RefreshTTL]}
    /\ issued = {TokenPair(Caller, SeedAccess, SeedRefresh)}
    /\ authLog = {}
    /\ resp = Response("none", None, 0, None, None, NoTokens, NoMatches)
    /\ \E premium \in BOOLEAN :
          appState = [hasPremium |-> premium, date |-> 0, dailyMatchCount |-> 0, rejectedMatches |-> {},
                      currentMatch |-> [id |-> None, compatibility |-> 0]]
    /\ reqs = [r \in 1..MaxReq |-> Idle]
    /\ resolved = 0
    /\ scored = {}
    /\ ranked = NoRanking
    /\ quiz = NoQuiz
    /\ dashboard = NoDashboard
    /\ photoDb = NoPhotos
    /\ photoReqs = EmptyBag
    /\ registrations = EmptyBag
    /\ server = NoServer
    /\ pay = NoPayments
    /\ client = NoClient

\* resolutions may overlap
NextMatch ==
    \/ \E r \in 1..MaxReq : BeginResolve(r)
    \/ \E r \in 1..MaxReq : FetchFailure(r)
    \/ \E r \in 1..MaxReq : FetchResponse(r)
    \/ RejectMatch
    \/ AcceptMatch

SpecMatch == InitMatch /\ [][NextMatch]_vars

\* resolutions one after another
NextMatchSeq ==
    \/ \E r \in 1..MaxReq : BeginResolveAlone(r)
    \/ \E r \in 1..MaxReq : FetchFailure(r)
    \/ \E r \in 1..MaxReq : FetchResponse(r)
    \/ RejectMatch
    \/ AcceptMatch

SpecMatchSeq == InitMatch /\ [][NextMatchSeq]_vars

\* midnight passes on the client's clock
NextDay ==
    /\ day < MaxDay
    /\ day' = day + 1
    /\ UNCHANGED <<extVars, scored, ranked, now, users, refreshTokens, issued, resp, authLog, appState, reqs, resolved>>

\* the match is passed on or accepted on the reveal page, which is shown
\* once the resolution has ended
RejectRevealed ==
    /\ \A q \in 1..MaxReq : reqs[q].pc = "idle"
    /\ RejectMatch

AcceptRevealed ==
    /\ \A q \in 1..MaxReq : reqs[q].pc = "idle"
    /\ AcceptMatch

\* resolutions one after another, over several days
NextMatchDays ==
    \/ BeginResolveAlone(1)
    \/ FetchFailure(1)
    \/ FetchResponse(1)
    \/ RejectRevealed
    \/ AcceptRevealed
    \/ NextDay

SpecMatchDays == InitMatch /\ [][NextMatchDays]_vars

(* ------------------------- candidate selection -------------------------- *)
\* a directory larger than one page of findMany: the caller, an unverified
\* and a deactivated account, and Take + 1 verified active candidates, in
\* the order they signed up
Directory ==
    <<"u1", "n1", "n2",
      "c01", "c02", "c03", "c04", "c05", "c06", "c07", "c08", "c09", "c10", "c11",
      "c12", "c13", "c14", "c15", "c16", "c17", "c18", "c19", "c20", "c21">>

DirectoryUser(i) ==
    [SeedUser(Directory[i], Directory[i], i - 1)
     EXCEPT !.isVerified = (Directory[i] # "n1"), !.isActive = (Directory[i] # "n2")]

\* select as the program computes it: the page the directory handler
\* returns for the caller, then the client's filter on the rejected ids
select(authHeader, excludeIds) ==
    [PotentialMatchesResponse(authHeader)
     EXCEPT !.route = "select",
            !.matches = availableUsers(@, excludeIds),
            !.req = excludeIds]

Select ==
    /\ resp' = select(ClientHeader, appState.rejectedMatches)
    /\ UNCHANGED <<extVars, scored, ranked, now, day, users, refreshTokens, issued, authLog, appState, reqs, resolved>>

\* one of the first two candidates of the selection is revealed as the match
Reveal(i) ==
    /\ resp.route = "select"
    /\ resp.req = appState.rejectedMatches
    /\ appState.currentMatch.id = None
    /\ i <= Len(resp.matches)
    /\ appState' = SET_MATCH(appState, [id |-> resp.matches[i], compatibility |-> 100])
    /\ UNCHANGED <<extVars, scored, ranked, now, day, users, refreshTokens, issued, resp, authLog, reqs, resolved>>

InitSelect ==
    /\ now = 0
    /\ day = 0
    /\ users = {DirectoryUser(i) : i \in 1..Len(Directory)}
    /\ refreshTokens = {[userId |-> Caller, token |-> SeedRefresh, expiresAt |-> RefreshTTL]}
    /\ issued = {TokenPair(Caller, SeedAccess, SeedRefresh)}
    /\ authLog = {}
    /\ resp = Response("none", None, 0, None, None, NoTokens, NoMatches)
    /\ appState = [hasPremium |-> TRUE, date |-> 0, dailyMatchCount |-> 0, rejectedMatches |-> {},
                   currentMatch |-> [id |-> None, compatibility |-> 0]]
    /\ reqs = [r \in 1..MaxReq |-> Idle]
    /\ resolved = 0
    /\ scored = {}
    /\ ranked = NoRanking
    /\ quiz = NoQuiz
    /\ dashboard = NoDashboard
    /\ photoDb = NoPhotos
    /\ photoReqs = EmptyBag
    /\ registrations = EmptyBag
    /\ server = NoServer
    /\ pay = NoPayments
    /\ client = NoClient

NextSelect ==
    \/ Select
    \/ \E i \in 1..2 : Reveal(i)
    \/ RejectMatch

SpecSelect == InitSelect /\ [][NextSelect]_vars

(* ------------------------------ scoring -------------------------------- *)
\* the weights of the seeded questions
Weights == <<3, 2, 5, 5, 4>>
Questions == 1..Len(Weights)

\* answer sets: the caller's, one agreeing with it exactly on the questions
\* of weight 5, one agreeing with it exactly on those of weight 2 and 3
OwnAnswers == [q \in Questions |-> "a"]
HeavyAnswers == [q \in Questions |-> IF Weights[q] = 5 THEN "a" ELSE "b"]
LightAnswers == [q \in Questions |-> IF Weights[q] \in {2, 3} THEN "a" ELSE "b"]
AnswerSets == {OwnAnswers, HeavyAnswers, LightAnswers}

\* calculateCompatibilityScore(): 7.0 + Math.random() * 3, clamped to
\* 7.0 .. 10.0; the values a call may return, whatever the answers
calculateCompatibilityScore == ScoreVals

\* mockAnalysis.score of POST /api/ai/analyze-compatibility:
\* Math.round((7 + Math.random() * 3) * 10) / 10, whatever the prompt
mockAnalysisScore == ScoreVals

\* the client scores a candidate's answers against the caller's
CalculateCompatibility(a, b) ==
    /\ Cardinality(scored) < MaxEvals
    /\ \E v \in calculateCompatibilityScore : scored' = scored \cup {<<a, b, v>>}
    /\ UNCHANGED <<extVars, ranked, now, day, users, refreshTokens, issued, resp, authLog, appState, reqs, resolved>>

\* POST /api/ai/analyze-compatibility with a prompt made of the two answer sets
AnalyzeCompatibility(a, b) ==
    /\ Cardinality(scored) < MaxEvals
    /\ \E v \in mockAnalysisScore : scored' = scored \cup {<<a, b, v>>}
    /\ resp' = Response("analyze-compatibility", None, 200, None, None, NoTokens, NoMatches)
    /\ UNCHANGED <<extVars, ranked, now, day, users, refreshTokens, issued, authLog, appState, reqs, resolved>>

NextScore ==
    \/ \E a, b \in AnswerSets : CalculateCompatibility(a, b)
    \/ \E a, b \in AnswerSets : AnalyzeCompatibility(a, b)

SpecScore == Init /\ [][NextScore]_vars

(* ------------------------------ ranking -------------------------------- *)
CandidateIds == <<"c1", "c2", "c3", "c4", "c5">>
RankScores == {3, 5, 7}
IdIndex(id) == CHOOSE i \in 1..Len(CandidateIds) : CandidateIds[i] = id

\* the lists the sort may be given: the first MaxRank candidates in any
\* order, each with a score
RankInputs ==
    {[i \in 1..MaxRank |-> [id |-> CandidateIds[order[i]], compatibility |-> score[i]]] :
        order \in {f \in [1..MaxRank -> 1..MaxRank] : \A i, j \in 1..MaxRank : f[i] = f[j] => i = j},
        score \in [1..MaxRank -> RankScores]}

\* matchesWithScores.sort(...), then topMatch = matchesWithScores[0]
Rank ==
    /\ ranked.output = <<>>
    /\ ranked' = [ranked EXCEPT !.output = sortByCompatibility(ranked.input)]
    /\ UNCHANGED <<extVars, scored, now, day, users, refreshTokens, issued, resp, authLog, appState, reqs, resolved>>

InitRank ==
    /\ now = 0
    /\ day = 0
    /\ users = {}
    /\ refreshTokens = {}
    /\ issued = {}
    /\ authLog = {}
    /\ resp = Response("none", None, 0, None, None, NoTokens, NoMatches)
    /\ appState = [hasPremium |-> FALSE, date |-> 0, dailyMatchCount |-> 0, rejectedMatches |-> {},
                   currentMatch |-> [id |-> None, compatibility |-> 0]]
    /\ reqs = [r \in 1..MaxReq |-> Idle]
    /\ resolved = 0
    /\ scored = {}
    /\ \E input \in RankInputs : ranked = [input |-> input, output |-> <<>>]
    /\ quiz = NoQuiz
    /\ dashboard = NoDashboard
    /\ photoDb = NoPhotos
    /\ photoReqs = EmptyBag
    /\ registrations = EmptyBag
    /\ server = NoServer
    /\ pay = NoPayments
    /\ client = NoClient

NextRank == Rank

SpecRank == InitRank /\ [][NextRank]_vars

(* ------------------------------ quizzes -------------------------------- *)
\* the question bank: the five seeded questions and further questions of the
\* categories the quizzes draw from
QuestionBank ==
    <<[id |-> "q01", category |-> "lifestyle", weight |-> 3],
      [id |-> "q02", category |-> "lifestyle", weight |-> 2],
      [id |-> "q03", category |-> "communication", weight |-> 5],
      [id |-> "q04", category |-> "values", weight |-> 5],
      [id |-> "q05", category |-> "communication", weight |-> 4],
      [id |-> "q06", category |-> "personality", weight |-> 3],
      [id |-> "q07", category |-> "lifestyle", weight |-> 4],
      [id |-> "q08", category |-> "communication", weight |-> 2],
      [id |-> "q09", category |-> "relationship", weight |-> 4],
      [id |-> "q10", category |-> "relationship", weight |-> 3],
      [id |-> "q11", category |-> "relationship", weight |-> 1],
      [id |-> "q12", category |-> "compatibility", weight |-> 3]>>

BankIndex == 1..Len(QuestionBank)
QuestionOf(id) == QuestionBank[CHOOSE i \in BankIndex : QuestionBank[i].id = id]
Min(a, b) == IF a <= b THEN a ELSE b

\* the lists of n distinct members of S
Draws(S, n) == {d \in [1..n -> S] : \A i, j \in 1..n : d[i] = d[j] => i = j}

\* getRandomQuestions(category, count, excludeIds): count questions of the
\* category, none of them excluded, drawn at random; the lists a call may return
getRandomQuestions(category, count, excludeIds) ==
    LET pool == {QuestionBank[i].id : i \in {k \in BankIndex :
                    /\ QuestionBank[k].category = category
                    /\ QuestionBank[k].id \notin excludeIds}}
    IN Draws(pool, Min(count, Cardinality(pool)))

\* the n first of the bank's questions (by index) in descending order of
\* weight, questions of equal weight in the order of the bank
RECURSIVE HeaviestFirst(_, _)
HeaviestFirst(I, n) ==
    IF n = 0 \/ I = {} THEN <<>>
    ELSE LET i == CHOOSE x \in I : \A y \in I :
                      \/ QuestionBank[y].weight < QuestionBank[x].weight
                      \/ (QuestionBank[y].weight = QuestionBank[x].weight /\ x <= y)
         IN <<QuestionBank[i].id>> \o HeaviestFirst(I \ {i}, n - 1)

\* getHighWeightQuestions(count, excludeIds): the count highest-weight
\* questions of the bank that are not excluded
getHighWeightQuestions(count, excludeIds) ==
    HeaviestFirst({i \in BankIndex : QuestionBank[i].id \notin excludeIds}, count)

\* PersonalityQuiz: the questions drawn on mount, every one of them answered,
\* then SET_PERSONALITY_ANSWERS
PersonalityQuiz ==
    /\ quiz.personalityAnswers = {}
    /\ \E personalityQuestions \in getRandomQuestions("personality", 3, {}),
          lifestyleQuestions \in getRandomQuestions("lifestyle", 2, {}),
          valueQuestions \in getRandomQuestions("values", 2, {}) :
          LET selectedQuestions == personalityQuestions \o lifestyleQuestions \o valueQuestions
          IN quiz' = [quiz EXCEPT !.personalityAnswers =
                          {selectedQuestions[i] : i \in 1..Len(selectedQuestions)}]
    /\ UNCHANGED quizFrame

\* CompatibilityQuiz: the effect that builds the question list from
\* state.personalityAnswers
CompatibilityQuiz ==
    /\ quiz.personalityAnswers # {}
    /\ quiz.questions = <<>>
    /\ LET personalityAnswerIds == quiz.personalityAnswers
           highWeightQuestions == getHighWeightQuestions(4, personalityAnswerIds)
       IN \E communicationQuestions \in getRandomQuestions("communication", 2, personalityAnswerIds),
             relationshipQuestions \in getRandomQuestions("relationship", 2, personalityAnswerIds),
             compatibilityQuestions \in getRandomQuestions("compatibility", 1, personalityAnswerIds) :
             quiz' = [quiz EXCEPT !.questions =
                         FirstN(highWeightQuestions \o communicationQuestions
                                    \o relationshipQuestions \o compatibilityQuestions, 8)]
    /\ UNCHANGED quizFrame

NextQuiz ==
    \/ PersonalityQuiz
    \/ CompatibilityQuiz

SpecQuiz == Init /\ [][NextQuiz]_vars

(* ----------------------------- Dashboard ------------------------------- *)
\* what AIMatchingService.findMatches(user.id, 10) may resolve with: up to
\* MaxMatches candidates, none twice
Candidates == {"u2", "u3", "u4"}
MatchResults == UNION {Draws(Candidates, n) : n \in 0..MaxMatches}

\* loadMatches up to its await: setLoading(true)
LoadMatches ==
    /\ ~dashboard.loading
    /\ dashboard' = [dashboard EXCEPT !.loading = TRUE]
    /\ UNCHANGED dashboardFrame

\* findMatches resolved: setMatches(...), then finally setLoading(false)
LoadMatchesResolved(matchResults) ==
    /\ dashboard.loading
    /\ dashboard' = [dashboard EXCEPT !.matches = matchResults, !.loading = FALSE,
                                      !.lastLoad = IF matchResults = <<>> THEN "empty" ELSE "matches"]
    /\ UNCHANGED dashboardFrame

\* findMatches threw (the directory or the store failed): the catch logs to
\* the console, then finally setLoading(false)
LoadMatchesFailed ==
    /\ dashboard.loading
    /\ dashboard' = [dashboard EXCEPT !.loading = FALSE, !.lastLoad = "failed"]
    /\ UNCHANGED dashboardFrame

\* const currentMatch = matches[currentMatchIndex]
HasCurrentMatch == dashboard.currentMatchIndex < Len(dashboard.matches)

\* handleAcceptMatch / handleRejectMatch with the service calls succeeding:
\* setCurrentMatchIndex(prev => prev + 1)
HandleMatch ==
    /\ ~dashboard.loading
    /\ HasCurrentMatch
    /\ dashboard' = [dashboard EXCEPT !.currentMatchIndex = @ + 1]
    /\ UNCHANGED dashboardFrame

\* the match card of the discover tab: the spinner, the current match, or
\* the "No more matches" panel
MatchCard ==
    IF dashboard.loading THEN "loading"
    ELSE IF HasCurrentMatch THEN "match"
    ELSE "No more matches"

NextDashboard ==
    \/ LoadMatches
    \/ \E matchResults \in MatchResults : LoadMatchesResolved(matchResults)
    \/ LoadMatchesFailed
    \/ HandleMatch

SpecDashboard == Init /\ [][NextDashboard]_vars

(* ------------------------- photo upload handler ------------------------ *)
\* the answer of the production upload handler to a POST or a DELETE
PhotoResponse(method, status, code) ==
    Response(method, None, status, code, Caller, NoTokens, NoMatches)

\* a request of the handler between two awaits: where it is, the user row
\* it read, the image id it is about
PhotoReq(pc, method, photos, imageId) ==
    [pc |-> pc, method |-> method, photos |-> photos, imageId |-> imageId]

InFlight == BagToSet(photoReqs)
Started(q) == photoReqs (+) SetToBag({q})
Moved(q, next) == (photoReqs (-) SetToBag({q})) (+) SetToBag({next})
Finished(q) == photoReqs (-) SetToBag({q})

\* the limit check letting a full profile through
PhotoLimitReachedAbove(photos) == Len(photos) > PhotoLimit

\* if (user.photos.length >= 6)
PhotoLimitReached(photos) == Len(photos) >= PhotoLimit

\* POST up to db.image.create: getUserFromToken reads the user row (photos
\* included), then the limit check and the validation of the body
PostBegin(authHeader, image) ==
    /\ BagCardinality(photoReqs) < MaxReq
    /\ photoDb.created < MaxUploads
    /\ LET user == getUserFromTokenUpload(authHeader) IN
       IF user = None
       THEN /\ resp' = PhotoResponse("POST", 401, "UNAUTHORIZED")
            /\ UNCHANGED photoReqs
       ELSE IF PhotoLimitReached(photoDb.photos)
       THEN /\ resp' = PhotoResponse("POST", 400, "PHOTO_LIMIT_EXCEEDED")
            /\ UNCHANGED photoReqs
       ELSE IF image = Missing
       THEN /\ resp' = PhotoResponse("POST", 400, "MISSING_IMAGE_DATA")
            /\ UNCHANGED photoReqs
       ELSE /\ photoReqs' = Started(PhotoReq("create", "POST", photoDb.photos, 0))
            /\ UNCHANGED resp
    /\ UNCHANGED <<photoDb, photoRest>>

\* db.image.create: a row with a fresh id
PostCreate(q) ==
    /\ q.pc = "create"
    /\ LET savedImage == photoDb.created + 1 IN
       /\ photoDb' = [photoDb EXCEPT !.images = @ \cup {savedImage}, !.created = savedImage]
       /\ photoReqs' = Moved(q, [q EXCEPT !.pc = "update", !.imageId = savedImage])
    /\ UNCHANGED <<resp, photoRest>>

\* db.user.update({data: {photos: [...user.photos, savedImage.id]}}), 201
PostUpdate(q) ==
    /\ q.pc = "update"
    /\ q.method = "POST"
    /\ photoDb' = [photoDb EXCEPT !.photos = Append(q.photos, q.imageId)]
    /\ resp' = PhotoResponse("POST", 201, "Image uploaded successfully")
    /\ photoReqs' = Finished(q)
    /\ UNCHANGED photoRest

\* DELETE up to db.user.update: getUserFromToken reads the user row, then
\* the checks on imageId
DeleteBegin(authHeader, imageId) ==
    /\ BagCardinality(photoReqs) < MaxReq
    /\ photoDb.deletes < MaxDeletes
    /\ LET user == getUserFromTokenUpload(authHeader) IN
       IF user = None
       THEN /\ resp' = PhotoResponse("DELETE", 401, "Authentication required")
            /\ UNCHANGED photoReqs
       ELSE IF imageId = 0
       THEN /\ resp' = PhotoResponse("DELETE", 400, "MISSING_IMAGE_ID")
            /\ UNCHANGED photoReqs
       ELSE IF \A i \in 1..Len(photoDb.photos) : photoDb.photos[i] # imageId
       THEN /\ resp' = PhotoResponse("DELETE", 404, "PHOTO_NOT_FOUND")
            /\ UNCHANGED photoReqs
       ELSE /\ photoReqs' = Started(PhotoReq("update", "DELETE", photoDb.photos, imageId))
            /\ UNCHANGED resp
    /\ photoDb' = [photoDb EXCEPT !.deletes = @ + 1]
    /\ UNCHANGED photoRest

\* db.user.update({data: {photos: user.photos.filter(id => id !== imageId)}})
DeleteUpdate(q) ==
    /\ q.pc = "update"
    /\ q.method = "DELETE"
    /\ photoDb' = [photoDb EXCEPT !.photos = SelectSeq(q.photos, LAMBDA id : id # q.imageId)]
    /\ photoReqs' = Moved(q, [q EXCEPT !.pc = "delete"])
    /\ UNCHANGED <<resp, photoRest>>

\* db.image.delete({where: {id: imageId}}): P2025 when the row is gone
DeleteImage(q) ==
    /\ q.pc = "delete"
    /\ IF q.imageId \in photoDb.images
       THEN /\ photoDb' = [photoDb EXCEPT !.images = @ \ {q.imageId}]
            /\ resp' = PhotoResponse("DELETE", 200, "Photo deleted successfully")
       ELSE /\ photoDb' = photoDb
            /\ resp' = PhotoResponse("DELETE", 404, "NOT_FOUND")
    /\ photoReqs' = Finished(q)
    /\ UNCHANGED photoRest

\* the caller signed in, with a profile of PhotoLimit - 2 photos
InitPhotos ==
    /\ now = 0
    /\ day = 0
    /\ users = {SeedUser("u1", "a@x", 0)}
    /\ refreshTokens = {[userId |-> Caller, token |-> SeedRefresh, expiresAt |-> RefreshTTL]}
    /\ issued = {TokenPair(Caller, SeedAccess, SeedRefresh)}
    /\ authLog = {}
    /\ resp = Response("none", None, 0, None, None, NoTokens, NoMatches)
    /\ appState = [hasPremium |-> FALSE, date |-> 0, dailyMatchCount |-> 0, rejectedMatches |-> {},
                   currentMatch |-> [id |-> None, compatibility |-> 0]]
    /\ reqs = [r \in 1..MaxReq |-> Idle]
    /\ resolved = 0
    /\ scored = {}
    /\ ranked = NoRanking
    /\ quiz = NoQuiz
    /\ dashboard = NoDashboard
    /\ photoDb = [photos |-> [i \in 1..(PhotoLimit - 2) |-> 100 + i],
                  images |-> {100 + i : i \in 1..(PhotoLimit - 2)},
                  created |-> 0, deletes |-> 0]
    /\ photoReqs = EmptyBag
    /\ registrations = EmptyBag
    /\ server = NoServer
    /\ pay = NoPayments
    /\ client = NoClient

\* the image ids a DELETE may name: one on the profile at its start, the
\* newest one, or none
DeleteInputs == {0, 101} \cup {photoDb.created}

NextPhotos ==
    \/ \E image \in ImageInputs : PostBegin(ClientHeader, image)
    \/ \E q \in InFlight : PostCreate(q)
    \/ \E q \in InFlight : PostUpdate(q)
    \/ \E imageId \in DeleteInputs : DeleteBegin(ClientHeader, imageId)
    \/ \E q \in InFlight : DeleteUpdate(q)
    \/ \E q \in InFlight : DeleteImage(q)

SpecPhotos == InitPhotos /\ [][NextPhotos]_vars

(* ----------------------------- Express apps ---------------------------- *)
\* the route modules initializeRoutes imports, in its order
RouteModules ==
    <<"auth", "users", "questions", "matches", "messages", "subscriptions", "payments", "images">>

Apps == {"server.js", "serverless"}

\* a layer of the middleware stack
Layer(name, kind, mount) == [name |-> name, kind |-> kind, mount |-> mount]
AppUse(name, kind, mount) == [op |-> "use", layer |-> Layer(name, kind, mount)]
CallInitializeRoutes == [op |-> "initializeRoutes", layer |-> Layer(None, None, <<>>)]

\* the statements of the module body that touch the app, in source order
Main(app) ==
    IF app = "server.js"
    THEN <<AppUse("helmet", "pass", <<>>), AppUse("cors", "pass", <<>>),
           AppUse("limiter", "pass", <<"api">>), AppUse("json", "pass", <<>>),
           AppUse("urlencoded", "pass", <<>>), AppUse("compression", "pass", <<>>),
           AppUse("morgan", "pass", <<>>),
           AppUse("health", "get", <<"health">>),
           AppUse("static", "static", <<>>),
           AppUse("spa", "spa", <<>>),
           AppUse("notFound", "end", <<>>),
           AppUse("errorHandler", "error", <<>>),
           CallInitializeRoutes>>
    ELSE <<AppUse("cors", "pass", <<>>), AppUse("json", "pass", <<>>),
           AppUse("urlencoded", "pass", <<>>),
           AppUse("uploads", "static", <<"uploads">>),
           AppUse("health", "get", <<"health">>),
           AppUse("root", "get", <<>>),
           AppUse("test", "get", <<"test">>),
           CallInitializeRoutes,
           AppUse("notFound", "end", <<>>),
           AppUse("errorHandler", "error", <<>>)>>

\* where initializeRoutes mounts a route module
Mount(app, module) == IF app = "server.js" THEN <<"api", module>> ELSE <<module>>

\* the app.use calls of initializeRoutes after its last import
RouteLayers(app) == [i \in 1..Len(RouteModules) |-> Layer(RouteModules[i], "router", Mount(app, RouteModules[i]))]

StaticFiles == {<<"index.html">>, <<"assets", "app.js">>}
IsPrefix(p, path) == Len(p) <= Len(path) /\ SubSeq(path, 1, Len(p)) = p

\* whether a layer ends the request (a route module: whether the request is
\* handed to it)
Handles(layer, method, path) ==
    IF layer.kind = "get" THEN method = "GET" /\ path = layer.mount
    ELSE IF layer.kind = "static" THEN method = "GET" /\ path \in StaticFiles /\ IsPrefix(layer.mount, path)
    ELSE IF layer.kind = "spa" THEN method = "GET" /\ (path = <<>> \/ path[1] \notin {"api", "health", "assets"})
    ELSE IF layer.kind = "router" THEN IsPrefix(layer.mount, path)
    ELSE layer.kind = "end"

\* Express runs the stack in the order of registration
dispatch(stack, method, path) ==
    IF \E i \in 1..Len(stack) : Handles(stack[i], method, path)
    THEN stack[CHOOSE i \in 1..Len(stack) :
                  /\ Handles(stack[i], method, path)
                  /\ \A j \in 1..(i - 1) : ~Handles(stack[j], method, path)].name
    ELSE "finalhandler"

MainDone == server.pc > Len(Main(server.app))
RoutesLoaded == server.routes = Len(RouteModules) + 1
\* server.js listens once initializeRoutes has resolved; the serverless app
\* is invoked once its module is loaded
StartupComplete == RoutesLoaded /\ (server.app = "server.js" => server.listening)
Serving == IF server.app = "server.js" THEN server.listening ELSE MainDone

\* the module is loaded by node, or by the serverless runtime
Load(app) ==
    /\ server.app = None
    /\ server' = [server EXCEPT !.app = app]
    /\ UNCHANGED serverFrame

\* the next statement of the module body; initializeRoutes() runs up to its
\* first await
MainStep ==
    /\ server.app # None
    /\ ~MainDone
    /\ LET stmt == Main(server.app)[server.pc] IN
       server' = IF stmt.op = "use"
                 THEN [server EXCEPT !.pc = @ + 1, !.stack = Append(@, stmt.layer)]
                 ELSE [server EXCEPT !.pc = @ + 1, !.routes = 1]
    /\ UNCHANGED serverFrame

\* an import of initializeRoutes resolves, which is after the module body has
\* run to its end; after the last one the route modules are mounted
ImportResolved ==
    /\ server.app # None
    /\ MainDone
    /\ server.routes \in 1..Len(RouteModules)
    /\ server' = IF server.routes = Len(RouteModules)
                 THEN [server EXCEPT !.routes = @ + 1, !.stack = @ \o RouteLayers(server.app)]
                 ELSE [server EXCEPT !.routes = @ + 1]
    /\ UNCHANGED serverFrame

\* an import rejects: server.js exits; the serverless app mounts its fallback
ImportRejected ==
    /\ server.app # None
    /\ MainDone
    /\ server.routes \in 1..Len(RouteModules)
    /\ server' = IF server.app = "server.js"
                 THEN [server EXCEPT !.routes = -1]
                 ELSE [server EXCEPT !.routes = -1, !.stack = Append(@, Layer("fallback", "end", <<>>))]
    /\ UNCHANGED serverFrame

\* initializeRoutes().then(() => app.listen(PORT))
Listen ==
    /\ server.app = "server.js"
    /\ RoutesLoaded
    /\ ~server.listening
    /\ server' = [server EXCEPT !.listening = TRUE]
    /\ UNCHANGED serverFrame

\* requests: a route of each module, and the three paths outside the API
DocumentedRoute(module) ==
    IF module = "auth" THEN <<"POST", "login">>
    ELSE IF module = "payments" THEN <<"POST", "webhook">>
    ELSE IF module = "users" THEN <<"GET", "profile">>
    ELSE <<"GET", "list">>

ApiRequest(app, module) ==
    [method |-> DocumentedRoute(module)[1], path |-> Mount(app, module) \o <<DocumentedRoute(module)[2]>>]

OtherRequests ==
    {[method |-> "GET", path |-> <<"health">>], [method |-> "GET", path |-> <<"assets", "app.js">>],
     [method |-> "GET", path |-> <<"dashboard">>]}

Requests(app) == {ApiRequest(app, RouteModules[i]) : i \in 1..Len(RouteModules)} \cup OtherRequests

HttpRequest(method, path) ==
    /\ server.app # None
    /\ Serving
    /\ server' = [server EXCEPT !.request = [method |-> method, path |-> path,
                                             ready |-> StartupComplete,
                                             answeredBy |-> dispatch(server.stack, method, path)]]
    /\ UNCHANGED serverFrame

NextServer ==
    \/ \E app \in Apps : Load(app)
    \/ MainStep
    \/ ImportResolved
    \/ ImportRejected
    \/ Listen
    \/ \E q \in Requests(server.app) : HttpRequest(q.method, q.path)

SpecServer == Init /\ [][NextServer]_vars

(* ------------------------------ payments ------------------------------- *)
Charges == {"charge_1", "charge_2"}
EventTypes == {"charge:confirmed", "charge:failed"}
\* the x-cc-webhook-signature header is, or is not, the HMAC of the body
Signatures == {"hmac", "other"}

PaymentRow(id, userId, status) == [id |-> id, providerId |-> id, userId |-> userId, status |-> status]

\* prisma.payment.findFirst({where: {providerId: chargeId, status: 'pending'}})
findFirstPending(chargeId) ==
    {i \in 1..Len(pay.payments) : pay.payments[i].providerId = chargeId /\ pay.payments[i].status = "pending"}

\* POST /api/payments/webhook up to prisma.payment.update: the signature
\* check, the event type, the search for the pending payment
WebhookBegin(signature, type, chargeId) ==
    /\ pay.deliveries < MaxDeliveries
    /\ BagCardinality(pay.inFlight) < MaxReq
    /\ pay' = IF signature # "hmac"
              THEN [pay EXCEPT !.deliveries = @ + 1, !.status = 401]
              ELSE IF type # "charge:confirmed" \/ findFirstPending(chargeId) = {}
              THEN [pay EXCEPT !.deliveries = @ + 1, !.status = 200]
              ELSE [pay EXCEPT !.deliveries = @ + 1,
                               !.inFlight = @ (+) SetToBag({[pc |-> "update",
                                    payment |-> CHOOSE i \in findFirstPending(chargeId) : TRUE]})]
    /\ UNCHANGED payFrame

\* prisma.payment.update({where: {id: payment.id}, data: {status: 'completed'}})
WebhookUpdate(q) ==
    /\ q.pc = "update"
    /\ pay' = [pay EXCEPT !.payments[q.payment].status = "completed",
                          !.inFlight = (@ (-) SetToBag({q})) (+) SetToBag({[q EXCEPT !.pc = "create"]})]
    /\ UNCHANGED payFrame

\* prisma.subscription.create({data: {userId: payment.userId, plan: 'premium', ...}}), 200
WebhookCreate(q) ==
    /\ q.pc = "create"
    /\ pay' = [pay EXCEPT !.subscriptions = @ (+) SetToBag({[userId |-> pay.payments[q.payment].userId,
                                                             plan |-> "premium",
                                                             payment |-> pay.payments[q.payment].id]}),
                          !.inFlight = @ (-) SetToBag({q}),
                          !.status = 200]
    /\ UNCHANGED payFrame

\* two users have each created a payment, and were sent to the payment page
InitPayments ==
    /\ now = 0
    /\ day = 0
    /\ users = {SeedUser("u1", "a@x", 0), SeedUser("u2", "b@x", 1)}
    /\ refreshTokens = {}
    /\ issued = {}
    /\ authLog = {}
    /\ resp = Response("none", None, 0, None, None, NoTokens, NoMatches)
    /\ appState = [hasPremium |-> FALSE, date |-> 0, dailyMatchCount |-> 0, rejectedMatches |-> {},
                   currentMatch |-> [id |-> None, compatibility |-> 0]]
    /\ reqs = [r \in 1..MaxReq |-> Idle]
    /\ resolved = 0
    /\ scored = {}
    /\ ranked = NoRanking
    /\ quiz = NoQuiz
    /\ dashboard = NoDashboard
    /\ photoDb = NoPhotos
    /\ photoReqs = EmptyBag
    /\ registrations = EmptyBag
    /\ server = NoServer
    /\ client = NoClient
    /\ pay = [NoPayments EXCEPT !.payments = <<PaymentRow("charge_1", "u1", "pending"),
                                               PaymentRow("charge_2", "u2", "pending")>>]

NextPayments ==
    \/ \E signature \in Signatures, type \in EventTypes, chargeId \in Charges :
          WebhookBegin(signature, type, chargeId)
    \/ \E q \in BagToSet(pay.inFlight) : WebhookUpdate(q)
    \/ \E q \in BagToSet(pay.inFlight) : WebhookCreate(q)

SpecPayments == InitPayments /\ [][NextPayments]_vars

(* --------------------------- the axios client -------------------------- *)
\* tokens are numbered by generation: pair g is the g-th the service issued
\* the refresh service: the one of the specification, which rotates on use,
\* or the generic /api/auth/* branch, which answers 200 without tokens
ServiceKinds == {"rotating", "generic"}

\* rotate(refreshToken): Invalid unless the token is the valid one; then the
\* token is revoked and a new pair issued
rotate(service, refreshToken) ==
    IF service.refreshToken = refreshToken /\ refreshToken # NoStoredToken
    THEN [ok |-> TRUE,
          tokens |-> [accessToken |-> refreshToken + 1, refreshToken |-> refreshToken + 1],
          service |-> [service EXCEPT !.refreshToken = refreshToken + 1,
                                      !.accepted = @ \cup {refreshToken + 1},
                                      !.rotated = @ \cup {refreshToken}]]
    ELSE [ok |-> FALSE, tokens |-> [accessToken |-> NoStoredToken, refreshToken |-> NoStoredToken],
          service |-> service]

\* the interceptor's test with the _retry flag left out
ShouldRefreshOnEvery401(status, retry) == status = 401

\* if (error.response?.status === 401 && !originalRequest._retry)
ShouldRefresh(status, retry) == status = 401 /\ ~retry

Call(c) == client.calls[c]

\* api.get / api.post: the request interceptor puts the accessToken of
\* localStorage in the Authorization header
Send(c) ==
    /\ Call(c).pc = "idle"
    /\ client.location # "/login"
    /\ client' = [client EXCEPT !.calls[c].pc = "sent", !.calls[c].auth = client.accessToken,
                                !.calls[c].sends = 1]
    /\ UNCHANGED clientFrame

\* the call is answered 2xx: (response) => response
Succeeds(c) ==
    /\ Call(c).pc = "sent"
    /\ Call(c).auth \in client.service.accepted
    /\ client' = [client EXCEPT !.calls[c].pc = "done", !.calls[c].outcome = "response"]
    /\ UNCHANGED clientFrame

\* the call is answered with an error (401 when the access token is not
\* accepted, or another failure): the response interceptor's error handler up
\* to its await, or to its end
Fails(c, status) ==
    /\ Call(c).pc = "sent"
    /\ status = 401 <=> Call(c).auth \notin client.service.accepted
    /\ IF ShouldRefresh(status, Call(c).retry) /\ client.refreshToken # NoStoredToken
       THEN /\ Call(c).refreshes < MaxRefreshes
            /\ client' = [client EXCEPT !.calls[c].pc = "refreshing", !.calls[c].retry = TRUE,
                                        !.calls[c].refreshToken = client.refreshToken,
                                        !.calls[c].refreshes = @ + 1,
                                        !.presented = @ (+) SetToBag({client.refreshToken})]
       ELSE client' = [client EXCEPT !.calls[c].pc = "done",
                                     !.calls[c].retry = (@ \/ ShouldRefresh(status, Call(c).retry)),
                                     !.calls[c].outcome = "error"]
    /\ UNCHANGED clientFrame

\* POST /auth/refresh answered with a new pair: both tokens are stored and
\* the original request is sent again with the new access token
RefreshSucceeds(c) ==
    /\ Call(c).pc = "refreshing"
    /\ client.service.kind = "rotating"
    /\ LET r == rotate(client.service, Call(c).refreshToken) IN
       /\ r.ok
       /\ client' = [client EXCEPT !.service = r.service,
                                   !.accessToken = r.tokens.accessToken,
                                   !.refreshToken = r.tokens.refreshToken,
                                   !.calls[c].pc = "sent",
                                   !.calls[c].auth = r.tokens.accessToken,
                                   !.calls[c].sends = @ + 1]
    /\ UNCHANGED clientFrame

\* why a refresh call ends in the catch: the service refused a token it had
\* rotated away, or any other token; the answer had no tokens; the network
RefreshFailures(c) ==
    IF client.service.kind = "generic" THEN {"no tokens", "network"}
    ELSE IF rotate(client.service, Call(c).refreshToken).ok THEN {"network"}
    ELSE IF Call(c).refreshToken \in client.service.rotated THEN {"rotated", "network"}
    ELSE {"invalid", "network"}

\* the catch: both tokens removed, window.location.href = '/login', then the
\* error of the original request is rejected
RefreshFails(c, cause) ==
    /\ Call(c).pc = "refreshing"
    /\ cause \in RefreshFailures(c)
    /\ client' = [client EXCEPT !.accessToken = NoStoredToken, !.refreshToken = NoStoredToken,
                                !.location = "/login",
                                !.cleared = cause,
                                !.calls[c].pc = "done", !.calls[c].outcome = "error"]
    /\ UNCHANGED clientFrame

\* the access tokens issued so far stop being accepted (they expire, or the
\* identity is deactivated)
AccessExpires ==
    /\ client.service.accepted # {}
    /\ client' = [client EXCEPT !.service.accepted = {}]
    /\ UNCHANGED clientFrame

\* the user is signed in: pair 0 is in localStorage, and the service is one
\* of the two kinds
InitClient ==
    /\ now = 0
    /\ day = 0
    /\ users = {SeedUser("u1", "a@x", 0)}
    /\ refreshTokens = {}
    /\ issued = {}
    /\ authLog = {}
    /\ resp = Response("none", None, 0, None, None, NoTokens, NoMatches)
    /\ appState = [hasPremium |-> FALSE, date |-> 0, dailyMatchCount |-> 0, rejectedMatches |-> {},
                   currentMatch |-> [id |-> None, compatibility |-> 0]]
    /\ reqs = [r \in 1..MaxReq |-> Idle]
    /\ resolved = 0
    /\ scored = {}
    /\ ranked = NoRanking
    /\ quiz = NoQuiz
    /\ dashboard = NoDashboard
    /\ photoDb = NoPhotos
    /\ photoReqs = EmptyBag
    /\ registrations = EmptyBag
    /\ server = NoServer
    /\ pay = NoPayments
    /\ \E kind \in ServiceKinds :
          client = [NoClient EXCEPT !.accessToken = 0, !.refreshToken = 0,
                                    !.service = [kind |-> kind, refreshToken |-> 0,
                                                 accepted |-> {0}, rotated |-> {}]]

NextClient ==
    \/ \E c \in 1..MaxReq : Send(c)
    \/ \E c \in 1..MaxReq : Succeeds(c)
    \/ \E c \in 1..MaxReq, status \in {401, 500} : Fails(c, status)
    \/ \E c \in 1..MaxReq : RefreshSucceeds(c)
    \/ \E c \in 1..MaxReq, cause \in {"rotated", "invalid", "no tokens", "network"} : RefreshFails(c, cause)
    \/ AccessExpires

SpecClient == InitClient /\ [][NextClient]_vars

(* --------------------------- login entry points ------------------------ *)
\* 'demo_token_' + Date.now()
DemoToken == [userId |-> "demo", iat |-> now, exp |-> now, sig |-> "demo_token"]

\* the simple login endpoint: any e-mail and password are accepted
SimpleLogin(email, password) ==
    /\ resp' = IF email = Missing \/ password = Missing
               THEN Response("simple-login", None, 400, "Email and password are required", None, NoTokens, NoMatches)
               ELSE Response("simple-login", None, 200, "Login successful!", "user_", {DemoToken}, NoMatches)
    /\ UNCHANGED <<now, users, refreshTokens, issued, authLog, clientVars>>

\* sign-up, deactivation, and the two login entry points
NextLogin ==
    \/ \E e \in Emails \cup {Missing}, p \in SignupPasswords \cup {Missing} : Register(e, p)
    \/ \E e \in Emails \cup {Missing}, p \in Passwords \cup {Missing} : Login(e, p)
    \/ \E e \in Emails \cup {Missing}, p \in Passwords \cup {Missing} : SimpleLogin(e, p)
    \/ \E id \in UserIds : Deactivate(id)
    \/ Tick

SpecLogin == Init /\ [][NextLogin]_vars

(* ----------------------- concurrent registrations ---------------------- *)
\* a registration between two of its awaits
Registration(pc, email, password, userId) ==
    [pc |-> pc, email |-> email, password |-> password, userId |-> userId]

RegisterResponse(q, cause, status, code, tokens) ==
    [Response("register", cause, status, code, q.userId, tokens, NoMatches) EXCEPT !.req = q.email]

\* email TEXT UNIQUE NOT NULL: the insert of a second row with the e-mail is refused
EmailTakenNever(email) == FALSE
EmailTaken(email) == UserByEmail(email) # {}

\* the request arrives: validation, then db.user.findUnique
RegisterBegin(email, password) ==
    /\ BagCardinality(registrations) < MaxRegistrations
    /\ UNCHANGED <<users, refreshTokens, issued, registerFrame>>
    /\ LET q == Registration("create", toLowerCase(email), password, None)
       IN IF email = Missing \/ password = Missing
          THEN /\ resp' = RegisterResponse(q, None, 400, "Missing required fields", NoTokens)
               /\ UNCHANGED registrations
          ELSE IF UserByEmail(q.email) # {}
          THEN /\ resp' = RegisterResponse(q, "existing_user", 409, "An account with this email already exists", NoTokens)
               /\ UNCHANGED registrations
          ELSE /\ registrations' = registrations (+) SetToBag({q})
               /\ UNCHANGED resp

\* bcrypt.hash, then db.user.create; P2002 is answered by the catch
RegisterCreate(q) ==
    /\ q \in BagToSet(registrations)
    /\ q.pc = "create"
    /\ UNCHANGED <<refreshTokens, issued, registerFrame>>
    /\ IF EmailTaken(q.email)
       THEN /\ resp' = RegisterResponse(q, "P2002", 409, "An account with this email already exists", NoTokens)
            /\ registrations' = registrations (-) SetToBag({q})
            /\ UNCHANGED users
       ELSE /\ \E id \in UserIds : UserById(id) = {}
            /\ users' = users \cup {[id |-> FreshId, email |-> q.email,
                                     password |-> bcryptHash(q.password),
                                     isVerified |-> FALSE, isActive |-> TRUE,
                                     createdAt |-> Cardinality(users)]}
            /\ registrations' = (registrations (-) SetToBag({q}))
                                    (+) SetToBag({[q EXCEPT !.pc = "token", !.userId = FreshId]})
            /\ UNCHANGED resp

\* jwt.sign twice, db.refreshToken.create, then the 201
RegisterToken(q) ==
    /\ q \in BagToSet(registrations)
    /\ q.pc = "token"
    /\ registrations' = registrations (-) SetToBag({q})
    /\ UNCHANGED <<users, registerFrame>>
    /\ LET accessToken == accessTokenFor(q.userId)
           refreshToken == refreshTokenFor(q.userId)
       IN IF TokenTaken(refreshToken)
          THEN /\ resp' = RegisterResponse([q EXCEPT !.userId = None], "P2002", 409,
                                           "An account with this email already exists", NoTokens)
               /\ UNCHANGED <<refreshTokens, issued>>
          ELSE /\ refreshTokens' = refreshTokens \cup {RefreshRow(q.userId, refreshToken)}
               /\ issued' = issued \cup {TokenPair(q.userId, accessToken, refreshToken)}
               /\ resp' = RegisterResponse(q, None, 201, "Account created successfully",
                                           {accessToken, refreshToken})

\* registrations arriving and proceeding in any order
NextRegister ==
    \/ \E e \in Emails \cup {Missing}, p \in SignupPasswords \cup {Missing} : RegisterBegin(e, p)
    \/ \E q \in BagToSet(registrations) : RegisterCreate(q)
    \/ \E q \in BagToSet(registrations) : RegisterToken(q)

SpecRegister == Init /\ [][NextRegister]_vars

(* ======================= token service claims ========================== *)
IsActive(id) == \E u \in users : u.id = id /\ u.isActive
RejectCauses == {"missing", "malformed", "forged", "expired", "unknown", "deactivated"}
\* jwt.verify's own test: the signature is the server's and exp is ahead
SignatureAndExpiryOk(h) ==
    h.kind = "bearer" /\ h.token.sig = "JWT_SECRET" /\ now < h.token.exp

\* C2: rotation is one-shot: a refresh call presenting a token that an
\* earlier refresh call accepted is refused.
C2_RotationOneShot ==
    (resp.route = "refresh" /\ resp.cause = "again") => resp.status # 200

\* C3: of all the refresh calls presenting one refresh token, in any order,
\* at most one is accepted.
C3_AtMostOneRotation ==
    \A p \in issued : Answered("refresh", p.refreshToken) <= 1

\* C4: every call that reaches token generation (register, login) persists a
\* refresh-token record of its own, and the persisted token strings are
\* pairwise distinct.
C4_IssueAlwaysPersists ==
    /\ resp.route \in {"register", "login"} => resp.cause # "P2002"
    /\ \A r1, r2 \in refreshTokens : r1.token = r2.token => r1 = r2

C7_BadTokenFails ==
    (resp.route = "potential-matches" /\ resp.cause \in {"missing", "malformed", "forged", "expired"})
        => (resp.status = 401 /\ resp.matches = NoMatches)

\* C8: any two rejected credentials (missing, malformed, forged, expired, of
\* a deactivated identity) get the same answer from /api/auth/me, the single
\* 401 "Invalid or expired token".
C8_Indistinguishable ==
    /\ \A h1, h2 \in AuthHeaders :
           (Classify(h1) # "valid" /\ Classify(h2) # "valid")
               => Outcome(MeResponse(h1)) = Outcome(MeResponse(h2))
    /\ (resp.route = "me" /\ resp.cause \in RejectCauses)
           => Outcome(resp) = [status |-> 401, code |-> "Invalid or expired token",
                               userId |-> None, tokens |-> NoTokens, matches |-> NoMatches]

\* /api/auth/me has refused the unexpired token of a deactivated identity,
\* and a forged and an expired token are at hand as well
C8_Witness ==
    /\ resp.route = "me" /\ resp.cause = "deactivated" /\ resp.status = 401
    /\ \E h \in AuthHeaders : Classify(h) = "expired"
    /\ \E h \in AuthHeaders : Classify(h) = "forged"

C10_LogoutRevokes ==
    (resp.route = "refresh" /\ Answered("logout", resp.req) > 0) => resp.status # 200

C12_RevokeAllRevokes ==
    (resp.route = "refresh"
        /\ \E e \in authLog : e[1] = "change-password" /\ e[2].userId = resp.req.userId)
        => resp.status # 200

(* ========================= selection claims ============================ *)
\* the identities select may return for the caller with these ids excluded
Eligible(excludeIds) ==
    {u.id : u \in {x \in users : x.isActive /\ x.isVerified /\ x.id # Caller /\ x.id \notin excludeIds}}

\* C13: a selection has at most Take candidates, each of them active,
\* verified, not the caller and not excluded, and it is non-empty whenever
\* such an identity exists in the directory.
C13_SelectEligible ==
    resp.route = "select" =>
        /\ Len(resp.matches) <= Take
        /\ \A i \in 1..Len(resp.matches) : resp.matches[i] \in Eligible(resp.req)
        /\ Eligible(resp.req) # {} => Len(resp.matches) > 0

\* the outcomes in which a candidate was revealed
ResolvedOutcomes == {"Resolved", "ResolvedAfterReset"}

\* resolution r has ended in this step with an answer of the directory
Answers(r) ==
    /\ reqs[r].pc = "fetching"
    /\ reqs'[r].pc = "idle"
    /\ reqs'[r].outcome # "Failed"

\* C14: a resolution whose candidate pool, with the rejected ids excluded,
\* is empty ends without a candidate: it is not Resolved and the match on
\* display is left as it was.
C14_ExhaustedWhenPoolEmpty ==
    [][\A r \in 1..MaxReq :
          (Answers(r) /\ availableUsers(resp'.matches, reqs[r].rejectedMatches) = <<>>)
              => /\ reqs'[r].outcome \notin ResolvedOutcomes
                 /\ appState'.currentMatch = appState.currentMatch]_vars

\* C15: within a day the candidate of a Resolved outcome is not in the
\* day's rejected list, and the rejected list loses no member.
C15_NeverResurfaced ==
    [][day' = day =>
          /\ \A r \in 1..MaxReq :
                (Answers(r) /\ reqs'[r].outcome \in ResolvedOutcomes)
                    => appState'.currentMatch.id \notin Today(appState).rejectedMatches
          /\ Today(appState).rejectedMatches \subseteq appState'.rejectedMatches]_vars

(* ========================== scoring claims ============================= *)
\* the questions on which two answer sets agree
Agreement(a, b) == {q \in Questions : a[q] = b[q]}

\* C18: two evaluations of the same pair of answer sets give the same score,
\* and so do the evaluations of a pair and of the pair swapped.
C18_DeterministicSymmetric ==
    \A e1, e2 \in scored :
        /\ (e1[1] = e2[1] /\ e1[2] = e2[2]) => e1[3] = e2[3]
        /\ (e1[1] = e2[2] /\ e1[2] = e2[1]) => e1[3] = e2[3]

\* position of a candidate in a list of matches
PositionIn(matches, id) == CHOOSE i \in 1..Len(matches) : matches[i].id = id

\* the example of the claim, in the order of the ids
ExampleInput ==
    <<[id |-> "c1", compatibility |-> 5], [id |-> "c2", compatibility |-> 7],
      [id |-> "c3", compatibility |-> 7], [id |-> "c4", compatibility |-> 3]>>

\* C19 (as claimed): the sorted list is in descending order of score with
\* equal scores in ascending order of id, whatever the order of the input.
C19_TiesByAscendingId ==
    ranked.output # <<>> =>
        \A i, j \in 1..Len(ranked.output) :
            i < j => \/ ranked.output[i].compatibility > ranked.output[j].compatibility
                     \/ /\ ranked.output[i].compatibility = ranked.output[j].compatibility
                        /\ IdIndex(ranked.output[i].id) < IdIndex(ranked.output[j].id)

\* C19 (amended): the sorted list holds the matches of the input in
\* descending order of score with equal scores in the order of the input;
\* scores [5,7,7,3] for [c1,c2,c3,c4] given in that order come out as
\* [c2,c3,c1,c4]; and the chosen match is the first of the sorted list.
C19_TiesByInputOrder ==
    ranked.output # <<>> =>
        /\ Len(ranked.output) = Len(ranked.input)
        /\ \A i \in 1..Len(ranked.input) : \E j \in 1..Len(ranked.output) : ranked.output[j] = ranked.input[i]
        /\ \A i, j \in 1..Len(ranked.output) :
              i < j => \/ ranked.output[i].compatibility > ranked.output[j].compatibility
                       \/ /\ ranked.output[i].compatibility = ranked.output[j].compatibility
                          /\ PositionIn(ranked.input, ranked.output[i].id)
                                 < PositionIn(ranked.input, ranked.output[j].id)
        /\ ranked.input = ExampleInput
              => [i \in 1..Len(ranked.output) |-> ranked.output[i].id] = <<"c2", "c3", "c1", "c4">>
        /\ topMatch(ranked.input) = ranked.output[1]

\* the example of the claim has been sorted
C19_Witness ==
    /\ ranked.input = ExampleInput
    /\ Len(ranked.output) = 4
    /\ ranked.output[1].id = "c2" /\ ranked.output[2].id = "c3"

\* C20: a candidate agreeing with the caller exactly on the questions of
\* weight 5 scores strictly higher, and ranks above, a candidate agreeing
\* exactly on the questions of weight 2 and 3.
C20_WeightsRespected ==
    \A e1, e2 \in scored :
        (/\ e1[1] = e2[1]
         /\ Agreement(e1[1], e1[2]) = {q \in Questions : Weights[q] = 5}
         /\ Agreement(e2[1], e2[2]) = {q \in Questions : Weights[q] \in {2, 3}})
            => /\ e1[3] > e2[3]
               /\ topMatch(<<[id |-> "light", compatibility |-> e2[3]],
                              [id |-> "heavy", compatibility |-> e1[3]]>>).id = "heavy"

(* ============================ quota claims ============================= *)
\* C1: however the resolutions of one identity overlap, today's count never
\* exceeds the tier's limit and no more than limit(tier) of them succeed.
C1_QuotaNeverExceeded ==
    /\ appState.dailyMatchCount <= matchLimit(appState.hasPremium)
    /\ resolved <= matchLimit(appState.hasPremium)

\* today's count as the component reads it
CountToday == Today(appState).dailyMatchCount

Begins(r) ==
    /\ reqs[r].pc = "idle"
    /\ reqs'[r] # reqs[r]

C21_NoAnsweredNoRepeat ==
    quiz.questions # <<>> =>
        /\ SubSeq(quiz.questions, 1, 4) = getHighWeightQuestions(4, quiz.personalityAnswers)
        /\ \A i \in 1..4, k \in BankIndex :
              QuestionBank[k].weight > QuestionOf(quiz.questions[i]).weight
                  => \/ QuestionBank[k].id \in quiz.personalityAnswers
                     \/ \E j \in 1..4 : quiz.questions[j] = QuestionBank[k].id
        /\ \A i \in 1..Len(quiz.questions) : quiz.questions[i] \notin quiz.personalityAnswers
        /\ \A i, j \in 1..Len(quiz.questions) : quiz.questions[i] = quiz.questions[j] => i = j

(* ========================= error-surfacing claims ====================== *)
\* C22: when the last load of matches failed (the directory or the store
\* threw), the Dashboard shows an error, not the "No more matches" panel it
\* shows for an empty result.
C22_FailureNotShownAsEmpty ==
    dashboard.lastLoad = "failed" => MatchCard # "No more matches"

C30_PhotosMatchImages ==
    photoReqs = EmptyBag
        => {photoDb.photos[i] : i \in 1..Len(photoDb.photos)} = photoDb.images

(* ============================ routing claims =========================== *)
\* C24: once start-up has completed, a request to a documented route of a
\* route module is handed to that module, and never ends in the 404 handler.
C24_RoutesBeforeNotFound ==
    \A i \in 1..Len(RouteModules) :
        (/\ server.request.ready
         /\ server.request.path = ApiRequest(server.app, RouteModules[i]).path)
            => /\ server.request.answeredBy = RouteModules[i]
               /\ server.request.answeredBy # "notFound"

(* ============================ payment claims =========================== *)
\* the subscription rows created for a payment
SubscriptionsFor(id) ==
    LET rows == {x \in BagToSet(pay.subscriptions) : x.payment = id}
    IN IF rows = {} THEN 0 ELSE CopiesIn(CHOOSE x \in rows : TRUE, pay.subscriptions)

\* C25: however the charge:confirmed deliveries for a charge are repeated or
\* overlap, at most one premium subscription is created for its payment,
\* exactly one once the payment is completed and no delivery is running, and
\* a completed payment stays completed.
C25_ConfirmedOnce ==
    [][\A i \in 1..Len(pay.payments) :
          /\ SubscriptionsFor(pay.payments[i].id)' <= 1
          /\ (pay.payments[i].status' = "completed" /\ pay.inFlight' = EmptyBag)
                => SubscriptionsFor(pay.payments[i].id)' = 1
          /\ pay.payments[i].status = "completed" => pay.payments[i].status' = "completed"]_vars

(* ============================ client claims ============================ *)
\* C26: whatever calls receive 401 together, no refresh token is presented
\* to /auth/refresh more than once, and the session is never cleared because
\* a call presented a token that a sibling's refresh had rotated away.
C26_RefreshTokenPresentedOnce ==
    /\ \A t \in BagToSet(client.presented) : CopiesIn(t, client.presented) = 1
    /\ client.cleared # "rotated"

\* C27: a call makes at most one refresh attempt and is sent at most twice;
\* a call answered 401 after its retry, or whose refresh failed, ends with
\* its error and without a further refresh.
C27_RetriedAtMostOnce ==
    [][\A c \in 1..MaxReq :
          /\ Call(c).refreshes' <= 1
          /\ Call(c).sends' <= 2
          /\ (Call(c).pc = "sent" /\ Call(c).retry /\ Call(c)' # Call(c))
                => /\ Call(c).pc' = "done"
                   /\ Call(c).refreshes' = Call(c).refreshes
          /\ (Call(c).pc = "refreshing" /\ Call(c).pc' = "done")
                => /\ Call(c).outcome' = "error"
                   /\ Call(c).sends' = 1]_vars

\* one call was answered 401 again after its refresh and retry and ended
\* with the error; another call's refresh failed
C27_Witness ==
    /\ \E c \in 1..MaxReq : Call(c).pc = "done" /\ Call(c).sends = 2 /\ Call(c).outcome = "error"
    /\ \E c \in 1..MaxReq : Call(c).pc = "done" /\ Call(c).sends = 1 /\ Call(c).refreshes = 1

(* ============================ login claims ============================= *)
\* an identity with this e-mail exists, is active, and the password verifies
VerifiedHolder(email, password) ==
    \E u \in users : /\ email # Missing
                     /\ u.email = toLowerCase(email)
                     /\ u.isActive
                     /\ bcryptCompare(password, u.password)

\* C28: at both login entry points a login request whose e-mail and password
\* are not those of an existing active identity returns a failure and no
\* token and leaves the refresh-token table unchanged.
C28_LoginOnlyForVerifiedHolder ==
    [][\A e \in Emails \cup {Missing}, p \in Passwords \cup {Missing} :
          ((Login(e, p) \/ SimpleLogin(e, p)) /\ ~VerifiedHolder(e, p))
              => /\ resp'.tokens = NoTokens
                 /\ resp'.status >= 400
                 /\ refreshTokens' = refreshTokens]_vars

(* ========================= registration claims ========================= *)
\* no two identities share a lower-cased e-mail
UniqueEmails ==
    \A u, v \in users : toLowerCase(u.email) = toLowerCase(v.email) => u = v

\* the step ends a registration whose e-mail another identity holds
LosesRace ==
    \/ \E e \in Emails, p \in SignupPasswords :
          RegisterBegin(e, p) /\ UserByEmail(toLowerCase(e)) # {}
    \/ \E q \in BagToSet(registrations) :
          RegisterCreate(q) /\ UserByEmail(q.email) # {}

\* C29: however concurrent registrations interleave, at most one identity
\* exists per lower-cased e-mail in every state, and a registration that
\* loses the race for an e-mail is answered 409 "already exists", receives no
\* tokens and creates nothing.
C29_OneIdentityPerEmail ==
    /\ []UniqueEmails
    /\ [][LosesRace => /\ resp'.status = 409
                       /\ resp'.code = "An account with this email already exists"
                       /\ resp'.tokens = NoTokens
                       /\ users' = users
                       /\ refreshTokens' = refreshTokens
                       /\ issued' = issued]_vars

\* two registrations for one e-mail both passed findUnique; one created the
\* identity and received its tokens, the other was refused by the insert
C29_Witness ==
    /\ resp.route = "register"
    /\ resp.cause = "P2002"
    /\ resp.status = 409
    /\ resp.tokens = NoTokens
    /\ \E u \in users : /\ u.email = resp.req
                        /\ \E t \in issued : t.userId = u.id
    /\ registrations = EmptyBag
====
